---- MODULE Spec2Model ----
(***************************************************************************)
(* Low-stock replenishment job of the CRM backend (crm/cron.py), the       *)
(* updateLowStockProducts mutation it calls (crm/schema.py) and the log    *)
(* sinks of the scheduled jobs (crm/cron.py _write_log, crm/tasks.py       *)
(* _log_message).                                                          *)
(*                                                                         *)
(* Further specifications cover the payload of the mutation (SpecPayload), *)
(* the CreateProduct mutations (SpecCatalog), two overlapping runs         *)
(* (SpecOverlap), a run repeated (SpecRerun), the weekly report of         *)
(* crm/tasks.py (SpecReport), the order-reminders script (SpecReminders),  *)
(* one replenishment run followed row by row over whole product rows       *)
(* (SpecFrame) and the customer mutations of two clients (SpecCustomers).  *)
(*                                                                         *)
(* Under Spec one behaviour is one invocation of a job, started from an    *)
(* arbitrary content of the product table.  Text is modelled as a sequence *)
(* of tokens: a token is one formatted fragment of a line, NL is "\n".     *)
(* The log variables hold the text the invocation appended to each         *)
(* location (the files are opened in append mode, so what was there before *)
(* is not touched).                                                        *)
(***************************************************************************)
EXTENDS Integers, Sequences, FiniteSets, TLC

\* ------------------------------------------------------------------ bounds
NumProducts == 3
Products == 1..NumProducts
\* stock values a product may hold when the job starts
StockValues == {3, 5, 10, 12}

\* ------------------------------------------------------- program constants
Threshold == 10
RestockAmount == 10
HTTP_OK == 200

\* ------------------------------------------------------------------- text
Tok(ts, kind, args, cause) == [ts |-> ts, kind |-> kind, args |-> args, cause |-> cause]
NL == Tok("", "\n", <<>>, "")
NoneTok == Tok("", "None", <<>>, "")

\* the value of datetime.now().strftime(...) of the invocation
Timestamps == {"t1", "t2"}

\* os.name of the host
OsNames == {"posix", "nt"}

\* ----------------------------------------------------------------- store
\* Product.objects.filter(stock__lt=10), in primary-key order, each row with
\* the stock it had when the query ran
ProductSeq(st) == [i \in 1..Cardinality(DOMAIN st) |-> i]

\* the filter with stock__lte in place of stock__lt
LowStockIds_Lte(st) == SelectSeq(ProductSeq(st), LAMBDA p : st[p] <= Threshold)

LowStockIds(st) == SelectSeq(ProductSeq(st), LAMBDA p : st[p] < Threshold)
LowStockRows(st) ==
    LET ids == LowStockIds(st)
    IN  [i \in 1..Len(ids) |-> [id |-> ids[i], stock |-> st[ids[i]]]]

\* a store failure injected into one use of the store: none, at the query
\* (filter / exists / iteration start), or at the k-th save of the loop
StoreFaults ==
    {[at |-> "none", k |-> 0], [at |-> "query", k |-> 0]}
        \cup {[at |-> "save", k |-> k] : k \in 1..NumProducts}
StoreErrorText == "OperationalError"

\* product.stock = 10 in place of product.stock += 10
Restocked_ToThreshold(old_stock) == Threshold

\* product.stock += 10
Restocked(old_stock) == old_stock + RestockAmount

\* --------------------------------------- crm/schema.py UpdateLowStockProducts
\* the rows saved by the first n iterations of the loop
\* the loop setting the stock to the threshold in place of adding to it
SaveFirst_ToThreshold(st, rows, n) ==
    [p \in DOMAIN st |->
        IF \E i \in 1..n : rows[i].id = p THEN Threshold ELSE st[p]]

SaveFirst(st, rows, n) ==
    [p \in DOMAIN st |->
        IF \E i \in 1..n : rows[i].id = p
        THEN Restocked((CHOOSE r \in {rows[i] : i \in 1..n} : r.id = p).stock)
        ELSE st[p]]

MutateError(st) ==
    [stock |-> st,
     updated_products |-> <<>>,
     success_message |-> NoneTok,
     errors |-> <<StoreErrorText>>]

\* the mutation returning each product with the stock it was read with
Mutate_OldStock(st, f) ==
    LET rows == LowStockRows(st)
    IN  IF f.at = "query" THEN MutateError(st)
        ELSE IF Len(rows) = 0 THEN
            [stock |-> st,
             updated_products |-> <<>>,
             success_message |-> Tok("", "No low-stock products found.", <<>>, ""),
             errors |-> <<>>]
        ELSE IF f.at = "save" /\ f.k <= Len(rows) THEN
            MutateError(SaveFirst(st, rows, f.k - 1))
        ELSE
            [stock |-> SaveFirst(st, rows, Len(rows)),
             updated_products |->
                [i \in 1..Len(rows) |-> [id |-> rows[i].id, stock |-> rows[i].stock]],
             success_message |->
                Tok("", "Successfully updated N low-stock products.", <<Len(rows)>>, ""),
             errors |-> <<>>]

\* UpdateLowStockProducts.mutate run by the server against store st with store
\* fault f: the store it leaves and the payload it returns (errors None is <<>>)
Mutate(st, f) ==
    LET rows == LowStockRows(st)
    IN  IF f.at = "query" THEN MutateError(st)
        ELSE IF Len(rows) = 0 THEN
            [stock |-> st,
             updated_products |-> <<>>,
             success_message |-> Tok("", "No low-stock products found.", <<>>, ""),
             errors |-> <<>>]
        ELSE IF f.at = "save" /\ f.k <= Len(rows) THEN
            MutateError(SaveFirst(st, rows, f.k - 1))
        ELSE
            [stock |-> SaveFirst(st, rows, Len(rows)),
             updated_products |->
                [i \in 1..Len(rows) |->
                    [id |-> rows[i].id, stock |-> Restocked(rows[i].stock)]],
             success_message |->
                Tok("", "Successfully updated N low-stock products.", <<Len(rows)>>, ""),
             errors |-> <<>>]

\* ------------------------------------------------------------- log sinks
\* what one call of a sink meets at its two locations: the primary append
\* succeeds, and the secondary is not used, or it raises; the secondary
\* (makedirs, open, write, write) then succeeds, raises before anything is
\* written, or raises after the message is written and before the provenance
\* note is
LogEnvs ==
    {[primary |-> "ok", secondary |-> "unused"]}
        \cup {[primary |-> "fail", secondary |-> s] : s \in {"ok", "fail", "partial"}}

\* the text appended to the locations of the low-stock job and of the report
\* tasks and printed on standard output, whether an exception left the sink,
\* and the calls of the sinks so far
NoFiles ==
    [primary |-> <<>>, secondary |-> <<>>,
     report_primary |-> <<>>, report_secondary |-> <<>>,
     console |-> <<>>, raised |-> FALSE, calls |-> <<>>]

Texts(fs) ==
    [primary |-> fs.primary, secondary |-> fs.secondary,
     report_primary |-> fs.report_primary, report_secondary |-> fs.report_secondary,
     console |-> fs.console]

\* the call sink(message) that met env and took the locations from fs0 to fs1
Called(fs0, fs1, sink, message, env) ==
    [fs1 EXCEPT !.calls =
        Append(@, [sink |-> sink, message |-> message, env |-> env,
                   before |-> Texts(fs0), after |-> Texts(fs1)])]

\* print(f"Failed to write log: {message}")
ConsoleLine(message) == <<Tok("", "Failed to write log: ", <<>>, "")>> \o message \o <<NL>>

\* crm/cron.py: fallback_path of _write_log
CronFallbackPath(os_name) ==
    IF os_name # "posix" THEN "C:\\temp\\low_stock_updates_log.txt"
    ELSE "/var/log/low_stock_updates_log.txt"

\* f"{timestamp} Note: Using fallback log location {fallback_path}\n"
CronNote(ts, os_name) ==
    <<Tok(ts, "Note: Using fallback log location ", <<>>, CronFallbackPath(os_name)), NL>>

\* _write_log without the try around the secondary location
WriteLog_NoInnerTry(files, message, ts, os_name, env) ==
    Called(files,
        IF env.primary = "ok" THEN
            [files EXCEPT !.primary = @ \o message]
        ELSE IF env.secondary = "ok" THEN
            [files EXCEPT !.secondary = @ \o message \o CronNote(ts, os_name)]
        ELSE IF env.secondary = "partial" THEN
            [files EXCEPT !.secondary = @ \o message, !.raised = TRUE]
        ELSE
            [files EXCEPT !.raised = TRUE],
        "cron", message, env)

\* _write_log printing the message whenever the primary location fails
WriteLog_AlwaysPrint(files, message, ts, os_name, env) ==
    Called(files,
        IF env.primary = "ok" THEN
            [files EXCEPT !.primary = @ \o message]
        ELSE IF env.secondary = "ok" THEN
            [files EXCEPT !.secondary = @ \o message \o CronNote(ts, os_name),
                          !.console = @ \o ConsoleLine(message)]
        ELSE IF env.secondary = "partial" THEN
            [files EXCEPT !.secondary = @ \o message,
                          !.console = @ \o ConsoleLine(message)]
        ELSE
            [files EXCEPT !.console = @ \o ConsoleLine(message)],
        "cron", message, env)

\* crm/cron.py _write_log(message, timestamp): the three locations after the call
WriteLog(files, message, ts, os_name, env) ==
    Called(files,
        IF env.primary = "ok" THEN
            [files EXCEPT !.primary = @ \o message]
        ELSE IF env.secondary = "ok" THEN
            [files EXCEPT !.secondary = @ \o message \o CronNote(ts, os_name)]
        ELSE IF env.secondary = "partial" THEN
            [files EXCEPT !.secondary = @ \o message,
                          !.console = @ \o ConsoleLine(message)]
        ELSE
            [files EXCEPT !.console = @ \o ConsoleLine(message)],
        "cron", message, env)

\* crm/tasks.py: fallback_path of _log_message
ReportFallbackPath(os_name) ==
    IF os_name # "posix" THEN "C:\\temp\\crm_report_log.txt"
    ELSE "/var/log/crm_report_log.txt"

\* f"Note: Using fallback log location {fallback_path}\n"
ReportNote(os_name) ==
    <<Tok("", "Note: Using fallback log location ", <<>>, ReportFallbackPath(os_name)), NL>>

\* crm/tasks.py _log_message(message): the three locations after the call
LogMessage(files, message, os_name, env) ==
    Called(files,
        IF env.primary = "ok" THEN
            [files EXCEPT !.report_primary = @ \o message \o <<NL>>]
        ELSE IF env.secondary = "ok" THEN
            [files EXCEPT !.report_secondary = @ \o message \o <<NL>> \o ReportNote(os_name)]
        ELSE IF env.secondary = "partial" THEN
            [files EXCEPT !.report_secondary = @ \o message \o <<NL>>,
                          !.console = @ \o ConsoleLine(message)]
        ELSE
            [files EXCEPT !.console = @ \o ConsoleLine(message)],
        "tasks", message, env)

\* ------------------------------------------- crm/cron.py _update_via_graphql
NoData == [updated_products |-> <<>>, success_message |-> NoneTok, errors |-> <<>>]

\* the fields _update_via_graphql subscripts before it looks at the error
\* list of the mutation (lines 73 and 75), and after it (lines 82, 83, 90)
MissingBeforeErrors == {"data", "updateLowStockProducts", "errors"}
ProductFields == {"product.id", "product.name", "product.stock"}
MissingAfterErrors == {"updatedProducts", "successMessage"} \cup ProductFields
MissingFields == MissingBeforeErrors \cup MissingAfterErrors

\* what requests.post + response.json() give: an exception of requests, or a
\* status with a body; the body has a top-level 'errors' key, or carries the
\* payload of the mutation, which may lack one expected field ("none": it
\* lacks nothing)
Response(exc, status, top_errors, missing, data) ==
    [exc |-> exc, status |-> status, top_errors |-> top_errors,
     missing |-> missing, data |-> data]

\* the responses that do not come out of a run of the mutation
FailedResponses ==
    {Response(TRUE, 0, FALSE, "none", NoData),
     Response(FALSE, 500, FALSE, "none", NoData),
     Response(FALSE, HTTP_OK, TRUE, "none", NoData),
     Response(FALSE, HTTP_OK, FALSE, "data", NoData)}

\* a subscript of lines 73-90 raises KeyError on response r: the field is
\* missing and the code gets to read it (a product's field is read only for
\* the products of the list)
KeyErrorBeforeErrors(r) == r.missing \in MissingBeforeErrors
\* a reader that takes the summary and the list with a default
KeyErrorAfterErrors_Defaulted(r) ==
    r.missing \in ProductFields /\ r.data.updated_products # <<>>
KeyErrorAfterErrors(r) ==
    \/ r.missing \in {"updatedProducts", "successMessage"}
    \/ r.missing \in ProductFields /\ r.data.updated_products # <<>>

\* the line of one product in the record of the remote path
RemoteProductLine(ts, product) ==
    <<Tok(ts, "  - name (ID) - New stock: ", <<product.id, product.stock>>, ""), NL>>

RECURSIVE RemoteProductLines(_, _)
RemoteProductLines(ts, products) ==
    IF products = <<>> THEN <<>>
    ELSE RemoteProductLine(ts, Head(products)) \o RemoteProductLines(ts, Tail(products))

\* the record of a successful remote run (lines 81-93)
RemoteSuccessMessage(ts, data) ==
    <<[data.success_message EXCEPT !.ts = ts], NL>>
    \o (IF data.updated_products # <<>>
        THEN <<Tok(ts, "Updated products:", <<>>, ""), NL>>
             \o RemoteProductLines(ts, data.updated_products)
        ELSE <<>>)
    \o <<NL>>

\* _update_via_graphql on response r: the message it logs and what it returns
UpdateViaGraphqlResult(ts, r) ==
    IF r.exc THEN
        [message |-> <<Tok(ts, "Request failed: ", <<>>, "ConnectionError"), NL>>,
         success |-> FALSE]
    ELSE IF r.status # HTTP_OK THEN
        [message |-> <<Tok(ts, "HTTP error ", <<r.status>>, "response.text"), NL>>,
         success |-> FALSE]
    ELSE IF r.top_errors THEN
        [message |-> <<Tok(ts, "GraphQL errors: ", <<>>, "data['errors']"), NL>>,
         success |-> FALSE]
    ELSE IF KeyErrorBeforeErrors(r) THEN
        [message |-> <<Tok(ts, "GraphQL approach failed: ", <<>>, "KeyError"), NL>>,
         success |-> FALSE]
    ELSE IF r.data.errors # <<>> THEN
        [message |-> <<Tok(ts, "Mutation errors: ", <<>>, r.data.errors[1]), NL>>,
         success |-> FALSE]
    ELSE IF KeyErrorAfterErrors(r) THEN
        [message |-> <<Tok(ts, "GraphQL approach failed: ", <<>>, "KeyError"), NL>>,
         success |-> FALSE]
    ELSE
        [message |-> RemoteSuccessMessage(ts, r.data), success |-> TRUE]

\* ------------------------------------------ crm/cron.py _update_via_database
\* the empty-result branch logging an empty record
DbNoneMessage_Empty(ts) == <<>>

\* the record of an empty result (line 122)
DbNoneMessage(ts) ==
    <<Tok(ts, "[Database Fallback] No low-stock products found.", <<>>, ""), NL, NL>>

\* the local line showing the new stock only
DbProductLine_NoOld(ts, product) ==
    <<Tok(ts, "  - name (ID) - Stock: old -> new",
          <<product.id, product.new_stock>>, ""), NL>>

DbProductLine(ts, product) ==
    <<Tok(ts, "  - name (ID) - Stock: old -> new",
          <<product.id, product.old_stock, product.new_stock>>, ""), NL>>

RECURSIVE DbProductLines(_, _)
DbProductLines(ts, products) ==
    IF products = <<>> THEN <<>>
    ELSE DbProductLine(ts, Head(products)) \o DbProductLines(ts, Tail(products))

\* the record of a completed fallback loop (lines 139-146)
DbSuccessMessage(ts, products) ==
    <<Tok(ts, "[Database Fallback] Successfully updated N low-stock products.",
          <<Len(products)>>, ""), NL>>
    \o (IF products # <<>>
        THEN <<Tok(ts, "[Database Fallback] Updated products:", <<>>, ""), NL>>
             \o DbProductLines(ts, products)
        ELSE <<>>)
    \o <<NL>>

\* the except branch logging without str(e)
DbFailedMessage_NoCause(ts, e) ==
    <<Tok(ts, "[Database Fallback] Failed: ", <<>>, ""), NL>>

\* the record of the except branch (lines 149-151)
DbFailedMessage(ts, e) ==
    <<Tok(ts, "[Database Fallback] Failed: ", <<>>, e), NL>>

\* update_low_stock that never calls the fallback
AfterGraphql_NoFallback(success) == "done"

\* update_low_stock that tries the remote path again after a failure
AfterGraphql_Retry(success) == IF ~success THEN "idle" ELSE "done"

\* update_low_stock that calls the fallback whatever the remote path returned
AfterGraphql_Always(success) == "db_query"

\* update_low_stock, lines 31-32: where the run goes after _update_via_graphql
AfterGraphql(success) == IF ~success THEN "db_query" ELSE "done"

\* update_low_stock returning a failure value when the fallback failed
ReturnValue_Signal(success, db_failed) == IF db_failed THEN "False" ELSE "None"

\* what update_low_stock and _update_via_database return: neither has a
\* return statement with a value
ReturnValue(success, db_failed) == "None"

\* _update_via_database whose try does not cover the store exception
UpdateViaDatabaseExcept_Uncaught(fs, ts, os, env) == [fs EXCEPT !.raised = TRUE]

\* the except branch of _update_via_database (lines 149-151): the store
\* exception is caught and logged
UpdateViaDatabaseExcept(fs, ts, os, env) ==
    WriteLog(fs, DbFailedMessage(ts, StoreErrorText), ts, os, env)

\* ------------------------------------------------- crm/tasks.py test task
CeleryTestMessage(ts) == <<Tok(ts, "Celery test task executed successfully", <<>>, "")>>

\* ------------------------------------------------------------------ state
VARIABLES
    stock,              \* Product.stock of every product of the store
    os_name,            \* os.name
    pc,                 \* position of the invocation
    job,                \* the job invoked
    timestamp,          \* timestamp of update_low_stock
    response,           \* what the request to the endpoint gave
    success,            \* value returned by _update_via_graphql
    low_stock_products, \* rows of the fallback's queryset still to process
    updated_products,   \* updated_products of _update_via_database
    files,              \* text appended to the log locations and the console
    ret,                \* value returned to the caller of the job
    requests,           \* number of requests sent to the endpoint
    dbCalls,            \* number of calls of _update_via_database
    dbFault,            \* the store fault the fallback met
    stockDb,            \* the store when _update_via_database was entered
    stock0,             \* the store when the job was invoked
    price,              \* Product.price of every product of the store
    created,            \* outcome of the last CreateProduct mutation
    overlap,            \* two replenishment runs working on the store at once
    prev,               \* the call of _update_via_database before this one
    task,               \* what a report or reminder job did and returned
    name,               \* Product.name of every product of the store
    run,                \* one replenishment run followed row by row
    customerTable,      \* Customer.email of every customer of the store
    customerCalls       \* the customer mutations being executed

vars ==
    <<stock, os_name, pc, job, timestamp, response, success, low_stock_products,
      updated_products, files, ret, requests, dbCalls, dbFault, stockDb, stock0,
      price, created, overlap, prev, task, name, run, customerTable, customerCalls>>

\* what one invocation of a scheduled job never writes
otherVars == <<price, created, overlap, prev, task, name, run, customerTable, customerCalls>>

NoFault == [at |-> "none", k |-> 0]
NoResponse == Response(FALSE, 0, FALSE, "none", NoData)

NotCreated == [impl |-> "none", ok |-> FALSE]

\* no report or reminder job has run; otherwise what its GraphQL path met, the
\* number of calls of its database fallback, how it ended (the dict a report
\* returns), whether an exception left it, and the text the reminder script
\* appended to its log file and printed
NoResult == [success |-> FALSE, method |-> "none"]
NoTask ==
    [graphql |-> "none", fallbacks |-> 0, result |-> NoResult, escaped |-> FALSE,
     log |-> <<>>, printed |-> <<>>]

\* no call before this one; otherwise whether the call before this one ended
\* without a store error, and the store it was started on
NoPrev == [ok |-> FALSE, before |-> <<>>]

\* the two runs of an overlap, neither started: where each run is, the rows of
\* its queryset still to save, and whether a save wrote a stock computed from
\* a value the store no longer held
Runs == {1, 2}
NoOverlap ==
    [pc |-> [r \in Runs |-> "start"], rows |-> [r \in Runs |-> <<>>], stale |-> FALSE]

\* a replenishment run not started: the path it takes, where it is, the rows
\* of its queryset still to save, the rows it saved, the table it started from
\* and what it gave its caller
NoTable == [stock |-> <<>>, price |-> <<>>, name |-> <<>>]
NoRun ==
    [path |-> "none", pc |-> "start", rows |-> <<>>, saved |-> <<>>,
     before |-> NoTable, value |-> NoData, raised |-> FALSE]

\* the clients sending customer mutations, none of them in a call
Callers == {1, 2}
NoCall ==
    [op |-> "none", pc |-> "idle", batch |-> <<>>, row |-> 0, pending |-> <<>>,
     created |-> <<>>, errors |-> <<>>, raised |-> FALSE]
NoCalls == [c \in Callers |-> NoCall]

\* no job has been invoked yet
InitJob ==
    /\ pc = "idle"
    /\ job = "none"
    /\ timestamp = ""
    /\ response = NoResponse
    /\ success = FALSE
    /\ low_stock_products = <<>>
    /\ updated_products = <<>>
    /\ files = NoFiles
    /\ ret = "unset"
    /\ requests = 0
    /\ dbCalls = 0
    /\ dbFault = NoFault
    /\ stockDb = stock
    /\ stock0 = stock
    /\ created = NotCreated
    /\ overlap = NoOverlap
    /\ prev = NoPrev
    /\ task = NoTask
    /\ run = NoRun
    /\ customerTable = <<>>
    /\ customerCalls = NoCalls

Init ==
    /\ stock \in [Products -> StockValues]
    /\ price = [p \in Products |-> 1]
    /\ name = [p \in Products |-> "name"]
    /\ os_name \in OsNames
    /\ InitJob

\* the job goes on, or the exception that was not caught leaves it
Finish(fs, next) == IF fs.raised THEN "done" ELSE next

\* what the caller of the job gets: the value returned, or the exception
Returned(fs, value) == IF fs.raised THEN "exception" ELSE value

\* update_low_stock up to the return of _update_via_graphql: the single
\* request, the mutation run by the server if the request reaches it, the
\* record logged and the choice of lines 31-32; the payload of a served
\* request lacks one of the fields of `lacking`
UpdateViaGraphqlOn(lacking) ==
    /\ pc = "idle"
    /\ \E ts \in Timestamps, env \in LogEnvs, missing \in lacking :
       \E served \in BOOLEAN, f \in StoreFaults, failed \in FailedResponses :
          LET m == Mutate(stock, f)
              r == IF served
                   THEN Response(FALSE, HTTP_OK, FALSE, missing,
                                 [updated_products |-> m.updated_products,
                                  success_message |-> m.success_message,
                                  errors |-> m.errors])
                   ELSE failed
              g == UpdateViaGraphqlResult(ts, r)
              fs == WriteLog(files, g.message, ts, os_name, env)
              next == Finish(fs, AfterGraphql(g.success))
          IN  /\ job' = "update_low_stock"
              /\ timestamp' = ts
              /\ requests' = requests + 1
              /\ stock' = IF served THEN m.stock ELSE stock
              /\ response' = r
              /\ success' = g.success
              /\ files' = fs
              /\ pc' = next
              /\ ret' = IF next = "done" THEN Returned(fs, ReturnValue(g.success, FALSE)) ELSE ret
    /\ UNCHANGED <<os_name, low_stock_products, updated_products, dbCalls, dbFault,
                   stockDb, stock0>>
    /\ UNCHANGED otherVars

\* the server answers with the whole payload
UpdateViaGraphql == UpdateViaGraphqlOn({"none"})

\* _update_via_database, lines 115-124: the query, and the record of an empty
\* result or of a store exception
UpdateViaDatabaseQuery ==
    /\ pc = "db_query"
    /\ dbCalls' = dbCalls + 1
    /\ stockDb' = stock
    /\ \E fault \in BOOLEAN, env \in LogEnvs :
          LET rows == LowStockRows(stock)
              fs == IF fault THEN UpdateViaDatabaseExcept(files, timestamp, os_name, env)
                    ELSE WriteLog(files, DbNoneMessage(timestamp), timestamp, os_name, env)
          IN  IF fault \/ Len(rows) = 0 THEN
                  /\ files' = fs
                  /\ dbFault' = IF fault THEN [at |-> "query", k |-> 0] ELSE dbFault
                  /\ pc' = "done"
                  /\ ret' = Returned(fs, ReturnValue(success, fault))
                  /\ UNCHANGED low_stock_products
              ELSE
                  /\ low_stock_products' = rows
                  /\ pc' = "db_loop"
                  /\ UNCHANGED <<files, dbFault, ret>>
    /\ UNCHANGED <<stock, os_name, job, timestamp, response, success, updated_products,
                   requests, stock0>>
    /\ UNCHANGED otherVars

\* one iteration of the loop of lines 127-137, or the store exception that
\* ends it
UpdateViaDatabaseSave ==
    /\ pc = "db_loop"
    /\ low_stock_products # <<>>
    /\ \E fault \in BOOLEAN, env \in LogEnvs :
          LET product == Head(low_stock_products)
              old_stock == product.stock
              new_stock == Restocked(old_stock)
              fs == UpdateViaDatabaseExcept(files, timestamp, os_name, env)
          IN  IF fault THEN
                  /\ files' = fs
                  /\ dbFault' = [at |-> "save", k |-> Len(updated_products) + 1]
                  /\ pc' = "done"
                  /\ ret' = Returned(fs, ReturnValue(success, TRUE))
                  /\ UNCHANGED <<stock, low_stock_products, updated_products>>
              ELSE
                  /\ stock' = [stock EXCEPT ![product.id] = new_stock]
                  /\ updated_products' =
                        Append(updated_products,
                               [id |-> product.id, old_stock |-> old_stock,
                                new_stock |-> new_stock])
                  /\ low_stock_products' = Tail(low_stock_products)
                  /\ UNCHANGED <<files, dbFault, pc, ret>>
    /\ UNCHANGED <<os_name, job, timestamp, response, success, requests, dbCalls,
                   stockDb, stock0>>
    /\ UNCHANGED otherVars

\* lines 139-147: the record of the completed loop
UpdateViaDatabaseLog ==
    /\ pc = "db_loop"
    /\ low_stock_products = <<>>
    /\ \E env \in LogEnvs :
          LET msg == DbSuccessMessage(timestamp, updated_products)
              fs == WriteLog(files, msg, timestamp, os_name, env)
          IN  /\ files' = fs
              /\ ret' = Returned(fs, ReturnValue(success, FALSE))
    /\ pc' = "done"
    /\ UNCHANGED <<stock, os_name, job, timestamp, response, success, low_stock_products,
                   updated_products, requests, dbCalls, dbFault, stockDb, stock0>>
    /\ UNCHANGED otherVars

\* crm/tasks.py test_celery_task
TestCeleryTask ==
    /\ pc = "idle"
    /\ \E ts \in Timestamps, env \in LogEnvs :
          LET msg == CeleryTestMessage(ts)
              fs == LogMessage(files, msg, os_name, env)
          IN  /\ timestamp' = ts
              /\ files' = fs
              /\ ret' = Returned(fs, "success")
    /\ job' = "test_celery_task"
    /\ pc' = "done"
    /\ UNCHANGED <<stock, os_name, response, success, low_stock_products,
                   updated_products, requests, dbCalls, dbFault, stockDb, stock0>>
    /\ UNCHANGED otherVars

Next ==
    \/ UpdateViaGraphql
    \/ UpdateViaDatabaseQuery
    \/ UpdateViaDatabaseSave
    \/ UpdateViaDatabaseLog
    \/ TestCeleryTask

Spec == Init /\ [][Next]_vars

\* the job against a server whose payload may lack any one expected field
\* the payloads a served request may carry: complete, or lacking one field
PayloadShapes == MissingFields \cup {"none"}

UpdateViaGraphqlLacking == UpdateViaGraphqlOn(PayloadShapes)

NextPayload ==
    \/ UpdateViaGraphqlLacking
    \/ UpdateViaDatabaseQuery
    \/ UpdateViaDatabaseSave
    \/ UpdateViaDatabaseLog

\* the payload is read the same way on every platform; a product is low on
\* stock or is not
InitPayload ==
    /\ Init
    /\ os_name = "posix"
    /\ stock \in [Products -> {5, 12}]

SpecPayload == InitPayload /\ [][NextPayload]_vars

\* --------------------------------------------------- product catalogue
\* the table holds at most NumProducts rows
\* prices and stocks a client may send to a CreateProduct mutation
PriceInputs == {-1, 0, 2}
StockInputs == {-1, 0, 5}

\* Product.stock of a row saved without a stock (crm.models.Product)
ProductDefaultStock == 0
\* default_value of the stock argument of CreateProduct
StockArgumentDefault == 0

\* ProductForm.is_valid on the price sent (crm/schema.py clean_price)
ProductFormValid(p) == ~(p <= 0)

\* the checks of CreateProduct.mutate without the check of the stock
CreateProductAccepts_NoStockCheck(p, st) == ~(p <= 0)

\* the two checks of CreateProduct.mutate (alx_backend_graphql_crm): neither
\* raises
CreateProductAccepts(p, st) == ~(p <= 0) /\ ~(st < 0)

jobVars ==
    <<os_name, pc, job, timestamp, response, success, low_stock_products,
      updated_products, files, ret, requests, dbCalls, dbFault, stockDb, stock0>>

\* CreateProduct.mutate of crm/schema.py: the form is saved if it is valid,
\* with the stock the model gives a new row
CreateProductForm ==
    /\ \E p \in PriceInputs :
          IF ProductFormValid(p) THEN
              /\ Len(stock) < NumProducts
              /\ stock' = Append(stock, ProductDefaultStock)
              /\ price' = Append(price, p)
              /\ name' = Append(name, "name")
              /\ created' = [impl |-> "form", ok |-> TRUE]
          ELSE
              /\ created' = [impl |-> "form", ok |-> FALSE]
              /\ UNCHANGED <<stock, price, name>>
    /\ UNCHANGED <<jobVars, overlap, prev, task, run, customerTable, customerCalls>>

\* the stock CreateProduct.mutate receives: the argument sent, or its default
StockArguments == StockInputs \cup {StockArgumentDefault}

\* CreateProduct.mutate of alx_backend_graphql_crm/crm/schema.py: the row is
\* created with the price and the stock sent unless a check raises
CreateProductMutation ==
    /\ \E p \in PriceInputs, st \in StockArguments :
              IF CreateProductAccepts(p, st) THEN
                  /\ Len(stock) < NumProducts
                  /\ stock' = Append(stock, st)
                  /\ price' = Append(price, p)
                  /\ name' = Append(name, "name")
                  /\ created' = [impl |-> "mutation", ok |-> TRUE]
              ELSE
                  /\ created' = [impl |-> "mutation", ok |-> FALSE]
                  /\ UNCHANGED <<stock, price, name>>
    /\ UNCHANGED <<jobVars, overlap, prev, task, run, customerTable, customerCalls>>

\* the updateLowStockProducts mutation executed on its own
\* (test_graphql_mutation)
ExecuteMutation ==
    /\ \E f \in StoreFaults : stock' = Mutate(stock, f).stock
    /\ UNCHANGED <<price, created, overlap, prev, task, name, run, customerTable, customerCalls>>
    /\ UNCHANGED jobVars

\* _update_via_database is entered (test_database_approach)
EnterUpdateViaDatabase ==
    /\ job' = "_update_via_database"
    /\ pc' = "db_query"
    /\ timestamp' = "t1"
    /\ response' = NoResponse
    /\ success' = FALSE
    /\ low_stock_products' = <<>>
    /\ updated_products' = <<>>
    /\ files' = NoFiles
    /\ ret' = "unset"
    /\ requests' = 0
    /\ dbCalls' = 0
    /\ dbFault' = NoFault
    /\ stock0' = stock
    /\ UNCHANGED <<stock, os_name, stockDb, price, created, overlap, task, name, run, customerTable, customerCalls>>

\* _update_via_database called on its own, once the call before it has
\* returned
CallUpdateViaDatabase ==
    /\ pc \in {"idle", "done"}
    /\ EnterUpdateViaDatabase
    /\ UNCHANGED prev

\* _update_via_database called again right after a call of it has returned
CallUpdateViaDatabaseAgain ==
    /\ pc = "done" /\ job = "_update_via_database"
    /\ prev = NoPrev
    /\ EnterUpdateViaDatabase
    /\ prev' = [ok |-> dbFault.at = "none", before |-> stock0]

\* the job's table, with any stock an integer column can hold
RerunStockValues == {-15, 0, 5, 12}

InitRerun ==
    /\ stock \in [Products -> RerunStockValues]
    /\ price = [p \in Products |-> 1]
    /\ name = [p \in Products |-> "name"]
    /\ os_name = "posix"
    /\ InitJob

\* the first call
CallUpdateViaDatabaseFirst ==
    /\ pc = "idle"
    /\ EnterUpdateViaDatabase
    /\ UNCHANGED prev

NextRerun ==
    \/ CallUpdateViaDatabaseFirst
    \/ CallUpdateViaDatabaseAgain
    \/ UpdateViaDatabaseQuery
    \/ UpdateViaDatabaseSave
    \/ UpdateViaDatabaseLog

SpecRerun == InitRerun /\ [][NextRerun]_vars

\* an empty product table
InitCatalog ==
    /\ stock = <<>>
    /\ price = <<>>
    /\ name = <<>>
    /\ os_name = "posix"
    /\ InitJob

NextCatalog ==
    \/ CreateProductForm
    \/ CreateProductMutation
    \/ ExecuteMutation
    \/ CallUpdateViaDatabase
    \/ UpdateViaDatabaseQuery
    \/ UpdateViaDatabaseSave
    \/ UpdateViaDatabaseLog

SpecCatalog == InitCatalog /\ [][NextCatalog]_vars

\* ------------------------------------------------------ overlapping runs
\* the stock a save writes with stock = F('stock') + 10
SavedStock_FromStore(row, st) == Restocked(st[row.id])

\* the stock product.save() writes for a row of the queryset: the stock the
\* row was read with, plus 10 (cron.py 128-131, schema.py 164-166)
SavedStock(row, st) == Restocked(row.stock)

\* low_stock_products.exists() of run r (cron.py 121, schema.py 155)
RunExists(r) ==
    /\ overlap.pc[r] = "start"
    /\ overlap' = [overlap EXCEPT
                      !.pc[r] = IF LowStockIds(stock) = <<>> THEN "done" ELSE "iterate"]
    /\ UNCHANGED <<stock, price, created, prev, task, jobVars, name, run, customerTable, customerCalls>>

\* the for statement of run r evaluates the queryset: all its rows are read
\* at once (cron.py 126, schema.py 163)
RunIterate(r) ==
    /\ overlap.pc[r] = "iterate"
    /\ LET rows == LowStockRows(stock)
       IN  overlap' = [overlap EXCEPT
                         !.rows[r] = rows,
                         !.pc[r] = IF rows = <<>> THEN "done" ELSE "loop"]
    /\ UNCHANGED <<stock, price, created, prev, task, jobVars, name, run, customerTable, customerCalls>>

\* one iteration of the loop of run r
RunSave(r) ==
    /\ overlap.pc[r] = "loop"
    /\ LET row == Head(overlap.rows[r])
           rest == Tail(overlap.rows[r])
       IN  /\ stock' = [stock EXCEPT ![row.id] = SavedStock(row, stock)]
           /\ overlap' = [overlap EXCEPT
                             !.rows[r] = rest,
                             !.pc[r] = IF rest = <<>> THEN "done" ELSE "loop",
                             !.stale = @ \/ row.stock # stock[row.id]]
    /\ UNCHANGED <<price, created, prev, task, jobVars, name, run, customerTable, customerCalls>>

InitOverlap ==
    /\ stock \in [Products -> StockValues]
    /\ price = [p \in Products |-> 1]
    /\ name = [p \in Products |-> "name"]
    /\ os_name = "posix"
    /\ InitJob

NextOverlap ==
    \/ \E r \in Runs : RunExists(r)
    \/ \E r \in Runs : RunIterate(r)
    \/ \E r \in Runs : RunSave(r)

SpecOverlap == InitOverlap /\ [][NextOverlap]_vars

\* ----------------------------------------- crm/tasks.py generate_crm_report
\* successive calls of _log_message; an exception leaving one ends them
RECURSIVE LogMessages(_, _, _, _)
LogMessages(fs, messages, os, env) ==
    IF messages = <<>> \/ fs.raised THEN fs
    ELSE LogMessages(LogMessage(fs, Head(messages), os, env), Tail(messages), os, env)

Line(ts, kind, args) == <<Tok(ts, kind, args, "")>>

\* the lines of a report (lines 96-110, and 164-179 with the tag) for the
\* numbers of customers and of orders
ReportLines(ts, tag, generated, customers, orders) ==
    <<Line(ts, "Report: customers, orders, revenue", <<customers, orders>>),
      Line(ts, tag \o generated, <<>>)>>
    \o (IF customers > 0
        THEN <<Line(ts, tag \o "Customer details: ", <<customers>>)>> ELSE <<>>)
    \o (IF orders > 0
        THEN <<Line(ts, tag \o "Order details: ", <<orders>>),
               Line(ts, tag \o "Average order value: ", <<>>)>>
        ELSE <<>>)
    \o << <<>> >>

\* _fallback_database_report (lines 129-199) against a store that answers or
\* raises: the log after the call and the dict returned; an exception of the
\* try block, from the store or from a log call, is caught by line 190
FallbackDatabaseReport(fs, ts, os, env, db_ok, customers, orders) ==
    LET lines == <<Line(ts, "[FALLBACK] Using direct database access", <<>>)>>
                 \o ReportLines(ts, "[FALLBACK] ",
                                "CRM report generated successfully via database",
                                customers, orders)
        body == IF db_ok THEN LogMessages(fs, lines, os, env) ELSE fs
    IN  IF db_ok /\ ~body.raised THEN
            [files |-> body,
             result |-> [success |-> TRUE, method |-> "database_fallback"]]
        ELSE
            [files |-> LogMessage([body EXCEPT !.raised = FALSE],
                          <<Tok(ts, "[FALLBACK] Database report generation also failed: ",
                                <<>>, StoreErrorText)>>, os, env),
             result |-> [success |-> FALSE, method |-> "failed"]]

\* the outer except branch (lines 121-126), entered after n calls of the
\* fallback
ReportExcept(fs, n, ts, os, env, db_ok, customers, orders) ==
    LET fs1 == LogMessage([fs EXCEPT !.raised = FALSE],
                   <<Tok(ts, "GraphQL report generation failed: ", <<>>, "Exception")>>,
                   os, env)
        fb == FallbackDatabaseReport(fs1, ts, os, env, db_ok, customers, orders)
    IN  IF fs1.raised THEN [files |-> fs1, result |-> NoResult, fallbacks |-> n]
        ELSE [files |-> fb.files, result |-> fb.result, fallbacks |-> n + 1]

\* the inner except branch returning the failure without a fallback
HelloExcept_NoFallback(fs, ts, os, env, db_ok, customers, orders) ==
    [files |-> LogMessage(fs, <<Tok(ts, "GraphQL endpoint check failed: ", <<>>,
                                    "TransportError")>>, os, env),
     result |-> [success |-> FALSE, method |-> "failed"],
     fallbacks |-> 0]

\* the inner except branch (lines 49-51); an exception leaving it is caught by
\* the outer except
HelloExcept(fs, ts, os, env, db_ok, customers, orders) ==
    LET fs1 == LogMessage([fs EXCEPT !.raised = FALSE],
                   <<Tok(ts, "GraphQL endpoint check failed: ", <<>>, "TransportError")>>,
                   os, env)
        fb == FallbackDatabaseReport(fs1, ts, os, env, db_ok, customers, orders)
    IN  IF fs1.raised THEN
            ReportExcept(fs1, 0, ts, os, env, db_ok, customers, orders)
        ELSE IF fb.files.raised THEN
            ReportExcept(fb.files, 1, ts, os, env, db_ok, customers, orders)
        ELSE [files |-> fb.files, result |-> fb.result, fallbacks |-> 1]

\* what the GraphQL path may meet: both queries answered, the endpoint check
\* raising, the data query raising, or data that cannot be counted
GraphqlOutcomes == {"ok", "hello", "query", "data"}

\* generate_crm_report (lines 28-126)
GenerateCrmReportResult(fs, ts, os, env, graphql, db_ok, customers, orders) ==
    LET fs1 == LogMessage(fs, Line(ts, "GraphQL endpoint responsive: ", <<>>), os, env)
        fs2 == LogMessages(fs1,
                   ReportLines(ts, "", "CRM report generated successfully via GraphQL",
                               customers, orders), os, env)
    IN  IF graphql = "hello" THEN
            HelloExcept(fs, ts, os, env, db_ok, customers, orders)
        ELSE IF fs1.raised THEN
            HelloExcept(fs1, ts, os, env, db_ok, customers, orders)
        ELSE IF graphql \in {"query", "data"} THEN
            ReportExcept(fs1, 0, ts, os, env, db_ok, customers, orders)
        ELSE IF fs2.raised THEN
            ReportExcept(fs2, 0, ts, os, env, db_ok, customers, orders)
        ELSE
            [files |-> fs2, result |-> [success |-> TRUE, method |-> "graphql"],
             fallbacks |-> 0]

\* numbers of rows the report counts
RowCounts == {0, 2}

GenerateCrmReport ==
    /\ pc = "idle"
    /\ \E ts \in Timestamps, env \in LogEnvs, graphql \in GraphqlOutcomes,
          db_ok \in BOOLEAN, customers \in RowCounts, orders \in RowCounts :
          LET g == GenerateCrmReportResult(files, ts, os_name, env, graphql, db_ok,
                                           customers, orders)
          IN  /\ timestamp' = ts
              /\ files' = g.files
              /\ task' = [NoTask EXCEPT !.graphql = graphql,
                                        !.fallbacks = g.fallbacks,
                                        !.result = g.result,
                                        !.escaped = g.files.raised]
              /\ ret' = Returned(g.files, "dict")
    /\ job' = "generate_crm_report"
    /\ pc' = "done"
    /\ UNCHANGED <<stock, os_name, response, success, low_stock_products,
                   updated_products, requests, dbCalls, dbFault, stockDb, stock0>>
    /\ UNCHANGED <<price, created, overlap, prev, name, run, customerTable, customerCalls>>

\* the tasks of crm/tasks.py; they do not read the product table
InitReport == Init /\ stock = [p \in Products |-> Threshold]

NextReport ==
    \/ GenerateCrmReport
    \/ TestCeleryTask

SpecReport == InitReport /\ [][NextReport]_vars

\* ------------------------------- crm/cron_jobs/send_order_reminders.py
\* the error record written without the inner try
ReminderError_NoTry(t, ok, line) ==
    IF ok THEN [t EXCEPT !.log = @ \o line] ELSE [t EXCEPT !.escaped = TRUE]

\* lines 85-90 and 132-136: the error record is appended to the log file, or
\* printed when that raises
ReminderError(t, ok, line) ==
    IF ok THEN [t EXCEPT !.log = @ \o line] ELSE [t EXCEPT !.printed = @ \o line]

\* what a block of writes to the log file meets: all of them succeed, open
\* raises, or a write raises after the first line is in the file
WriteOutcomes == {"ok", "fail", "partial"}

\* a with-block appending lines to the log file (lines 52-76, 112-126)
ReminderAppend(t, outcome, lines) ==
    IF outcome = "ok" THEN [t EXCEPT !.log = @ \o lines]
    ELSE IF outcome = "partial" THEN [t EXCEPT !.log = @ \o <<lines[1], lines[2]>>]
    ELSE t

\* the records of a run over n recent orders, with the tag of the path
ReminderLines(ts, tag, first, n) ==
    <<Tok(ts, tag \o first, <<>>, ""), NL>>
    \o (IF n > 0 \/ tag # ""
        THEN <<Tok(ts, tag \o "Found N recent orders", <<n>>, ""), NL>>
        ELSE <<Tok(ts, "No recent orders found for reminders", <<>>, ""), NL>>)
    \o (IF n > 0 THEN <<Tok(ts, tag \o "Order Reminder - ", <<n>>, ""), NL>> ELSE <<>>)
    \o <<Tok(ts, tag \o "Order reminders processing completed", <<>>, ""), NL, NL>>

\* fallback_database_approach (lines 95-136): the store answers or raises, the
\* block of writes meets `outcome`, and the error record can be written or not
FallbackDatabaseApproach(t, ts, db_ok, outcome, err_ok, n) ==
    LET t1 == [t EXCEPT !.fallbacks = @ + 1]
        lines == ReminderLines(ts, "[FALLBACK] ", "Using direct database access", n)
        t2 == IF db_ok THEN ReminderAppend(t1, outcome, lines) ELSE t1
    IN  IF db_ok /\ outcome = "ok" THEN
            [t2 EXCEPT !.printed = @ \o <<Tok("", "[FALLBACK] Order reminders processed via database!", <<n>>, "")>>,
                       !.result = [success |-> TRUE, method |-> "database_fallback"]]
        ELSE
            [ReminderError(t2, err_ok,
                 <<Tok(ts, "[FALLBACK] Database approach also failed: ", <<>>,
                       IF db_ok THEN "OSError" ELSE StoreErrorText), NL>>)
             EXCEPT !.result = [success |-> FALSE, method |-> "failed"]]

\* main() (lines 34-93): graphql is what client.execute and the processing of
\* its result meet; an exception leaving the except branch leaves main
MainResult(ts, graphql, outcome, err_ok, db_ok, fb_outcome, fb_err_ok, n) ==
    LET t0 == [NoTask EXCEPT !.graphql = graphql]
        lines == ReminderLines(ts, "", "Order reminders processing started", n)
        t1 == IF graphql = "ok" THEN ReminderAppend(t0, outcome, lines) ELSE t0
        t2 == ReminderError(t1, err_ok,
                  <<Tok(ts, "Error processing order reminders: ", <<>>,
                        IF graphql = "ok" THEN "OSError" ELSE graphql), NL>>)
    IN  IF graphql = "ok" /\ outcome = "ok" THEN
            [t1 EXCEPT !.printed = @ \o <<Tok("", "Order reminders processed!", <<n>>, "")>>,
                       !.result = [success |-> TRUE, method |-> "graphql"]]
        ELSE IF t2.escaped THEN t2
        ELSE FallbackDatabaseApproach(t2, ts, db_ok, fb_outcome, fb_err_ok, n)

\* the reminders script sends one query only: no hello query before it
ReminderGraphqlOutcomes == GraphqlOutcomes \ {"hello"}

SendOrderReminders ==
    /\ pc = "idle"
    /\ \E ts \in Timestamps, graphql \in ReminderGraphqlOutcomes,
          outcome \in WriteOutcomes, err_ok \in BOOLEAN, db_ok \in BOOLEAN,
          fb_outcome \in WriteOutcomes, fb_err_ok \in BOOLEAN, n \in RowCounts :
          LET t == MainResult(ts, graphql, outcome, err_ok, db_ok, fb_outcome,
                              fb_err_ok, n)
          IN  /\ timestamp' = ts
              /\ task' = t
              /\ ret' = IF t.escaped THEN "exception" ELSE "None"
    /\ job' = "send_order_reminders"
    /\ pc' = "done"
    /\ UNCHANGED <<stock, os_name, response, success, low_stock_products,
                   updated_products, files, requests, dbCalls, dbFault, stockDb, stock0>>
    /\ UNCHANGED <<price, created, overlap, prev, name, run, customerTable, customerCalls>>

NextReminders == SendOrderReminders

SpecReminders == InitReport /\ [][NextReminders]_vars

\* ----------------------------------- a replenishment run, followed row by row
\* the product table
Table == [stock |-> stock, price |-> price, name |-> name]

\* the rows of Product.objects.filter(stock__lt=10) as the loop gets them:
\* model instances holding every column of their row
ProductRows(t) ==
    LET ids == LowStockIds(t.stock)
    IN  [i \in 1..Len(ids) |->
            [id |-> ids[i], name |-> t.name[ids[i]], price |-> t.price[ids[i]],
             stock |-> t.stock[ids[i]]]]

\* a save of an instance rebuilt from its id and its new stock
SavedRow_StockOnly(row) ==
    [id |-> row.id, name |-> "", price |-> 0, stock |-> Restocked(row.stock)]

\* the instance product.save() writes after product.stock += 10: save() writes
\* every column of the row whose id is the instance's
SavedRow(row) == [row EXCEPT !.stock = Restocked(@)]

\* the two paths of a replenishment run: the mutation on the server and the
\* fallback of the job
RunPaths == {"mutation", "fallback"}

\* the except clause re-raising the store exception
RunExcept_Reraise(r, path) ==
    [r EXCEPT !.pc = "failed", !.raised = TRUE]

\* the except clause of the run: the mutation returns the error as a value,
\* the fallback logs it and returns None
RunExcept(r, path) ==
    [r EXCEPT !.pc = "failed",
              !.value = IF path = "mutation"
                        THEN [updated_products |-> <<>>, success_message |-> NoneTok,
                              errors |-> <<StoreErrorText>>]
                        ELSE NoData]

\* what the run returns when the queryset is empty
RunNoneValue(path) ==
    IF path = "mutation"
    THEN [updated_products |-> <<>>,
          success_message |-> Tok("", "No low-stock products found.", <<>>, ""),
          errors |-> <<>>]
    ELSE NoData

\* what the run returns after the loop
RunDoneValue(path, saved) ==
    IF path = "mutation"
    THEN [updated_products |->
              [i \in 1..Len(saved) |-> [id |-> saved[i].id, stock |-> saved[i].stock]],
          success_message |->
              Tok("", "Successfully updated N low-stock products.", <<Len(saved)>>, ""),
          errors |-> <<>>]
    ELSE NoData

\* the query and the exists() test of the run, or the store exception they
\* raise
RunQuery ==
    /\ run.pc = "start"
    /\ \E path \in RunPaths, fault \in BOOLEAN :
          LET r == [run EXCEPT !.path = path, !.before = Table]
              rows == ProductRows(Table)
          IN  run' = IF fault THEN RunExcept(r, path)
                     ELSE IF rows = <<>>
                          THEN [r EXCEPT !.pc = "done", !.value = RunNoneValue(path)]
                          ELSE [r EXCEPT !.pc = "loop", !.rows = rows]
    /\ UNCHANGED <<stock, price, name, created, overlap, prev, task, customerTable,
                   customerCalls, jobVars>>

\* one iteration of the loop, or the store exception save() raises
RunSaveRow ==
    /\ run.pc = "loop"
    /\ run.rows # <<>>
    /\ \E fault \in BOOLEAN :
          LET w == SavedRow(Head(run.rows))
          IN  IF fault THEN
                  /\ run' = RunExcept(run, run.path)
                  /\ UNCHANGED <<stock, price, name>>
              ELSE
                  /\ stock' = [stock EXCEPT ![w.id] = w.stock]
                  /\ price' = [price EXCEPT ![w.id] = w.price]
                  /\ name' = [name EXCEPT ![w.id] = w.name]
                  /\ run' = [run EXCEPT !.rows = Tail(@), !.saved = Append(@, w)]
    /\ UNCHANGED <<created, overlap, prev, task, customerTable, customerCalls, jobVars>>

\* the return after the loop
RunReturn ==
    /\ run.pc = "loop"
    /\ run.rows = <<>>
    /\ run' = [run EXCEPT !.pc = "done", !.value = RunDoneValue(run.path, run.saved)]
    /\ UNCHANGED <<stock, price, name, created, overlap, prev, task, customerTable,
                   customerCalls, jobVars>>

\* the prices and the names of the rows
PriceValues == {1, 2}
NameValues == {"name", "other"}

InitFrame ==
    /\ stock \in [Products -> {5, 12}]
    /\ price \in [Products -> PriceValues]
    /\ name \in [Products -> NameValues]
    /\ os_name = "posix"
    /\ InitJob

NextFrame ==
    \/ RunQuery
    \/ RunSaveRow
    \/ RunReturn

SpecFrame == InitFrame /\ [][NextFrame]_vars

\* ------------------------------------------------------ customer mutations
\* most rows the customer table holds before a mutation adds one
MaxCustomers == 3
\* most rows of a batch of BulkCreateCustomers
MaxBatch == 2

Emails == {"a@x", "A@x"}

\* email.lower().strip() of CustomerForm.clean_email
CleanEmail(email) == IF email = "A@x" THEN "a@x" ELSE email

\* the batches a client sends: any list of at most MaxBatch emails
Batches == UNION {[1..n -> Emails] : n \in 0..MaxBatch}

\* Customer.objects.filter(email=email).exists() on the rows a call can see
EmailExists(rows, email) == \E i \in DOMAIN rows : rows[i] = email

\* Customer.objects.create(...) and form.save(): the store adds the row
StoreCreate(rows, email) == Append(rows, email)

\* the call of client c can begin: the client is in no call
CanCall(c) == customerCalls[c].pc \in {"idle", "returned"}

\* a call that ended with an exception leaving mutate
Raised(op, message) ==
    [NoCall EXCEPT !.op = op, !.pc = "returned", !.raised = TRUE, !.errors = <<message>>]

\* CreateCustomer.mutate of alx_backend_graphql_crm/crm/schema.py, lines
\* 42-47: the email check and the phone check
CreateCustomerCheck(c) ==
    /\ CanCall(c)
    /\ \E email \in Emails, phone_ok \in BOOLEAN :
          customerCalls' =
              [customerCalls EXCEPT ![c] =
                  IF EmailExists(customerTable, email)
                  THEN Raised("create", "Email already exists")
                  ELSE IF ~phone_ok THEN Raised("create", "Invalid phone format")
                  ELSE [NoCall EXCEPT !.op = "create", !.pc = "create",
                                      !.batch = <<email>>]]
    /\ UNCHANGED <<stock, price, name, created, overlap, prev, task, run, customerTable,
                   jobVars>>

\* line 49-50: the row is created and returned
CreateCustomerCreate(c) ==
    /\ customerCalls[c].op = "create" /\ customerCalls[c].pc = "create"
    /\ Len(customerTable) < MaxCustomers
    /\ customerTable' = StoreCreate(customerTable, customerCalls[c].batch[1])
    /\ customerCalls' =
          [customerCalls EXCEPT ![c].pc = "returned", ![c].created = @ \o customerCalls[c].batch]
    /\ UNCHANGED <<stock, price, name, created, overlap, prev, task, run, jobVars>>

\* CreateCustomer.mutate of crm/schema.py, lines 81-82 and 85: form.is_valid()
\* runs clean_email; an invalid form is answered with its errors
CreateCustomerFormValid(c) ==
    /\ CanCall(c)
    /\ \E data \in Emails :
          LET email == CleanEmail(data)
          IN  customerCalls' =
                 [customerCalls EXCEPT ![c] =
                     IF EmailExists(customerTable, email)
                     THEN [NoCall EXCEPT !.op = "form", !.pc = "returned",
                                         !.errors = <<"Email already exists">>]
                     ELSE [NoCall EXCEPT !.op = "form", !.pc = "create",
                                         !.batch = <<email>>]]
    /\ UNCHANGED <<stock, price, name, created, overlap, prev, task, run, customerTable,
                   jobVars>>

\* lines 83-84: form.save()
CreateCustomerFormSave(c) ==
    /\ customerCalls[c].op = "form" /\ customerCalls[c].pc = "create"
    /\ Len(customerTable) < MaxCustomers
    /\ customerTable' = StoreCreate(customerTable, customerCalls[c].batch[1])
    /\ customerCalls' =
          [customerCalls EXCEPT ![c].pc = "returned", ![c].created = @ \o customerCalls[c].batch]
    /\ UNCHANGED <<stock, price, name, created, overlap, prev, task, run, jobVars>>

\* what a row error of the batch reads: f"Row {idx+1}: {str(e)}"
RowError(idx, message) == [row |-> idx, message |-> message]

\* BulkCreateCustomers.mutate, lines 71-75: the transaction is opened on a
\* batch; an empty batch goes to the commit
BulkBegin(c) ==
    /\ CanCall(c)
    /\ \E batch \in Batches :
          customerCalls' =
              [customerCalls EXCEPT ![c] =
                  [NoCall EXCEPT !.op = "bulk", !.batch = batch, !.row = 1,
                                 !.pc = IF batch = <<>> THEN "commit" ELSE "check"]]
    /\ UNCHANGED <<stock, price, name, created, overlap, prev, task, run, customerTable,
                   jobVars>>

\* the call moves to the row after the current one, or to the commit
BulkAdvance(call) ==
    [call EXCEPT !.row = @ + 1,
                 !.pc = IF call.row = Len(call.batch) THEN "commit" ELSE "check"]

\* lines 77-81 and 90-91 for the current row: the checks, whose exception is
\* appended to errors; the transaction sees the committed rows and its own
BulkCheck(c) ==
    /\ customerCalls[c].op = "bulk" /\ customerCalls[c].pc = "check"
    /\ \E phone_ok \in BOOLEAN :
          LET call == customerCalls[c]
              email == call.batch[call.row]
              refuse(message) ==
                  BulkAdvance([call EXCEPT !.errors = Append(@, RowError(call.row, message))])
          IN  customerCalls' =
                 [customerCalls EXCEPT ![c] =
                     IF EmailExists(customerTable \o call.pending, email)
                     THEN refuse("Email already exists")
                     ELSE IF ~phone_ok THEN refuse("Invalid phone format")
                     ELSE [call EXCEPT !.pc = "insert"]]
    /\ UNCHANGED <<stock, price, name, created, overlap, prev, task, run, customerTable,
                   jobVars>>

\* lines 83-88 for the current row: the row is created inside the transaction
BulkInsert(c) ==
    /\ customerCalls[c].op = "bulk" /\ customerCalls[c].pc = "insert"
    /\ Len(customerTable) + Len(customerCalls[c].pending) < MaxCustomers
    /\ LET call == customerCalls[c]
           email == call.batch[call.row]
       IN  customerCalls' =
              [customerCalls EXCEPT ![c] =
                  BulkAdvance([call EXCEPT !.pending = StoreCreate(@, email),
                                           !.created = Append(@, email)])]
    /\ UNCHANGED <<stock, price, name, created, overlap, prev, task, run, customerTable,
                   jobVars>>

\* the with block is left: the transaction commits, and line 93 returns
BulkCommit(c) ==
    /\ customerCalls[c].op = "bulk" /\ customerCalls[c].pc = "commit"
    /\ customerTable' = customerTable \o customerCalls[c].pending
    /\ customerCalls' = [customerCalls EXCEPT ![c].pc = "returned", ![c].pending = <<>>]
    /\ UNCHANGED <<stock, price, name, created, overlap, prev, task, run, jobVars>>

InitCustomers ==
    /\ stock = [p \in Products |-> Threshold]
    /\ price = [p \in Products |-> 1]
    /\ name = [p \in Products |-> "name"]
    /\ os_name = "posix"
    /\ InitJob

NextCustomers ==
    \/ \E c \in Callers : CreateCustomerCheck(c)
    \/ \E c \in Callers : CreateCustomerCreate(c)
    \/ \E c \in Callers : CreateCustomerFormValid(c)
    \/ \E c \in Callers : CreateCustomerFormSave(c)
    \/ \E c \in Callers : BulkBegin(c)
    \/ \E c \in Callers : BulkCheck(c)
    \/ \E c \in Callers : BulkInsert(c)
    \/ \E c \in Callers : BulkCommit(c)

SpecCustomers == InitCustomers /\ [][NextCustomers]_vars

\* ------------------------------------------------------------- properties
CronDone == job = "update_low_stock" /\ pc = "done"
Calls == files.calls
LastCall == Calls[Len(Calls)]
FirstKind(message) == message[1].kind

\* the three remote failures of the fallback contract
TransportFailed == response.exc
StatusFailed == ~response.exc /\ response.status # 200
MutationErrors ==
    /\ ~response.exc /\ response.status = 200
    /\ ~response.top_errors /\ ~KeyErrorBeforeErrors(response)
    /\ response.data.errors # <<>>
\* any remote failure
RemoteFailed ==
    \/ TransportFailed \/ StatusFailed \/ MutationErrors
    \/ (~response.exc /\ response.status = 200
        /\ (response.top_errors \/ KeyErrorBeforeErrors(response)
            \/ (response.data.errors = <<>> /\ KeyErrorAfterErrors(response))))

\* the store a completed fallback must leave, given the store it found
RestockedStore(st) == [p \in Products |-> IF st[p] < 10 THEN st[p] + 10 ELSE st[p]]

DbSummaryKinds ==
    {"[Database Fallback] No low-stock products found.",
     "[Database Fallback] Successfully updated N low-stock products."}
DbFailedKind == "[Database Fallback] Failed: "

\* C1: in a run whose remote attempt failed (transport error, non-200 status
\* or mutation errors) _update_via_database is called exactly once, and the
\* run ends either with the local update applied and its summary logged or
\* with the fallback's failure logged; a run that has not ended can go on.
C1_FallbackExactlyOnce ==
    /\ dbCalls <= 1
    /\ (job = "update_low_stock" /\ pc # "done") => ENABLED Next
    /\ (CronDone /\ (TransportFailed \/ StatusFailed \/ MutationErrors)) =>
          /\ dbCalls = 1
          /\ Len(Calls) = 2
          /\ \/ /\ dbFault.at = "none"
                /\ stock = RestockedStore(stockDb)
                /\ FirstKind(LastCall.message) \in DbSummaryKinds
             \/ /\ dbFault.at # "none"
                /\ FirstKind(LastCall.message) = DbFailedKind

C1_Witness ==
    /\ CronDone /\ TransportFailed /\ dbCalls = 1
    /\ dbFault.at = "none" /\ Len(updated_products) = 2

\* C2: a fallback run that completes without a store error leaves every
\* product whose stock was below 10 with its old stock plus 10 and every
\* product whose stock was 10 or more with its stock unchanged.
C2_FallbackRestocks ==
    (CronDone /\ dbCalls = 1 /\ dbFault.at = "none") =>
        \A p \in Products :
            stock[p] = IF stockDb[p] < 10 THEN stockDb[p] + 10 ELSE stockDb[p]

\* stocks 5, 12, 3 become 15, 12, 13; and a product at exactly 10 stays at 10
C2_Witness ==
    /\ CronDone /\ dbCalls = 1 /\ dbFault.at = "none"
    /\ stockDb[1] = 5 /\ stockDb[2] = 12 /\ stockDb[3] = 3
    /\ stock[1] = 15 /\ stock[2] = 12 /\ stock[3] = 13

\* C3: no exception leaves update_low_stock, whatever the remote outcome, the
\* store outcome and the outcome of the log locations.
C3_NeverPropagates ==
    job = "update_low_stock" => (~files.raised /\ ret # "exception")

\* remote failure, store failure in the loop, both log locations failing twice
C3_Witness ==
    /\ CronDone /\ RemoteFailed /\ dbFault.at = "save"
    /\ Len(Calls) = 2
    /\ \A i \in 1..2 : Calls[i].env.primary = "fail" /\ Calls[i].env.secondary = "fail"
    /\ ret = "None"

\* the run ended Failed: the remote attempt failed and the store raised
RunFailed == CronDone /\ RemoteFailed /\ dbFault.at # "none"

HasKind(message, kinds) == \E i \in DOMAIN message : message[i].kind \in kinds
RemoteCauseKinds ==
    {"Request failed: ", "HTTP error ", "GraphQL errors: ",
     "GraphQL approach failed: ", "Mutation errors: "}
DbProductKind == "  - name (ID) - Stock: old -> new"
DbFailedRecord == <<Tok(timestamp, DbFailedKind, <<>>, "OperationalError"), NL>>

\* C4 as stated: after a Failed run the caller of update_low_stock gets
\* something other than what it gets after a successful run.
C4_Original ==
    RunFailed => ret \notin {ReturnValue(TRUE, FALSE), ReturnValue(FALSE, FALSE)}

\* C4 (amended): update_low_stock returns None without raising in every
\* terminal state, Failed included; what tells a Failed run from a successful
\* one is only the last record logged, "[Database Fallback] Failed: ...".
C4_SameSignal ==
    CronDone =>
        /\ ret = "None"
        /\ ~files.raised
        /\ RunFailed <=> (FirstKind(LastCall.message) = DbFailedKind)

C4_Witness ==
    /\ RunFailed /\ dbFault.at = "query" /\ ret = "None"
    /\ FirstKind(LastCall.message) = DbFailedKind

\* C5 as stated: a Failed run logs one record that holds the remote failure
\* cause and the store failure cause.
C5_Original ==
    RunFailed =>
        \E i \in DOMAIN Calls :
            /\ HasKind(Calls[i].message, RemoteCauseKinds)
            /\ HasKind(Calls[i].message, {DbFailedKind})

\* C5 (amended): a Failed run logs the two causes as two records, by two calls
\* of _write_log: first the remote failure, without the store cause, then
\* "[Database Fallback] Failed: <store error>", without the remote cause.
C5_SeparateRecords ==
    RunFailed =>
        /\ Len(Calls) = 2
        /\ HasKind(Calls[1].message, RemoteCauseKinds)
        /\ ~HasKind(Calls[1].message, {DbFailedKind})
        /\ Calls[2].message = DbFailedRecord
        /\ ~HasKind(Calls[2].message, RemoteCauseKinds)

C5_Witness ==
    /\ RunFailed /\ StatusFailed /\ dbFault.at = "save"
    /\ Len(Calls) = 2 /\ Calls[2].message = DbFailedRecord

\* no product is below the threshold when the job is invoked
NoLowStock0 == \A p \in Products : stock0[p] >= 10
NoLowKinds ==
    {"No low-stock products found.",
     "[Database Fallback] No low-stock products found."}

\* C6 as stated: with no product below 10 and no store error, no product is
\* changed, the summary logged says that none was found, and the sink gets
\* exactly one entry, on either path.
C6_Original ==
    (CronDone /\ NoLowStock0 /\ dbFault.at = "none" /\ response.data.errors = <<>>) =>
        /\ stock = stock0
        /\ HasKind(LastCall.message, NoLowKinds)
        /\ Len(Calls) = 1

\* C6 (amended): with no product below 10 no product is changed; a run handled
\* by the remote path logs exactly one entry, the "No low-stock products
\* found." summary; a run handled by the fallback logs two entries, the remote
\* failure and then the fallback's record, which is the "[Database Fallback]
\* No low-stock products found." summary unless the store query raised.
C6_EntriesPerPath ==
    (CronDone /\ NoLowStock0) =>
        /\ stock = stock0
        /\ ~RemoteFailed =>
              /\ Len(Calls) = 1
              /\ Calls[1].message =
                    <<Tok(timestamp, "No low-stock products found.", <<>>, ""), NL, NL>>
        /\ RemoteFailed =>
              /\ Len(Calls) = 2
              /\ HasKind(Calls[1].message, RemoteCauseKinds)
              /\ dbFault.at = "none" =>
                    Calls[2].message =
                        <<Tok(timestamp, "[Database Fallback] No low-stock products found.",
                              <<>>, ""), NL, NL>>
              /\ dbFault.at # "none" => Calls[2].message = DbFailedRecord

C6_Witness ==
    /\ CronDone /\ NoLowStock0 /\ TransportFailed /\ dbFault.at = "none"
    /\ Len(Calls) = 2
    /\ HasKind(Calls[2].message, NoLowKinds)

\* the store after the saves of the first k - 1 candidates of store st
PartialStore(st, k) ==
    [p \in Products |->
        IF st[p] < 10 /\ Cardinality({q \in 1..p : st[q] < 10}) < k
        THEN st[p] + 10 ELSE st[p]]

\* the line of an updated product, with old and new stock, is in a record
ProductLogged(u) ==
    \E i \in DOMAIN Calls : \E j \in DOMAIN Calls[i].message :
        /\ Calls[i].message[j].kind = DbProductKind
        /\ Calls[i].message[j].args = <<u.id, u.old_stock, u.new_stock>>

C8_SingleRequest ==
    /\ requests <= 1
    /\ job = "update_low_stock" => requests = 1

C8_Witness ==
    /\ CronDone /\ StatusFailed /\ dbCalls = 1 /\ requests = 1
    /\ dbFault.at = "none"

\* the secondary location of the sink of call c, in a snapshot of the texts
SecondaryOf(c, texts) ==
    IF c.sink = "cron" THEN texts.secondary ELSE texts.report_secondary
FallbackPathOf(c) ==
    IF c.sink = "cron"
    THEN (IF os_name = "posix" THEN "/var/log/low_stock_updates_log.txt"
          ELSE "C:\\temp\\low_stock_updates_log.txt")
    ELSE (IF os_name = "posix" THEN "/var/log/crm_report_log.txt"
          ELSE "C:\\temp\\crm_report_log.txt")
NoteKind == "Note: Using fallback log location "
IsNote(t, c) == t.kind = NoteKind /\ t.cause = FallbackPathOf(c)

\* C9: a call of a log sink whose primary append fails and whose secondary
\* location is writable appends to the secondary location the message, as it
\* is, and then a note naming the fallback location; nothing goes to the
\* console or to the primary location.
C9_SecondaryVerbatim ==
    \A i \in DOMAIN Calls :
        LET c == Calls[i]
            old == SecondaryOf(c, c.before)
            new == SecondaryOf(c, c.after)
            n == Len(c.message)
            rest == SubSeq(new, Len(old) + n + 1, Len(new))
        IN  (c.env.primary = "fail" /\ c.env.secondary = "ok") =>
                /\ Len(new) >= Len(old) + n
                /\ SubSeq(new, 1, Len(old)) = old
                /\ SubSeq(new, Len(old) + 1, Len(old) + n) = c.message
                /\ IF c.sink = "cron"
                   THEN Len(rest) = 2 /\ IsNote(rest[1], c) /\ rest[2] = NL
                   ELSE Len(rest) = 3 /\ rest[1] = NL /\ IsNote(rest[2], c) /\ rest[3] = NL
                /\ c.after.console = c.before.console
                /\ c.after.primary = c.before.primary
                /\ c.after.report_primary = c.before.report_primary

C9_Witness ==
    /\ CronDone /\ Len(Calls) = 2
    /\ Calls[2].env.primary = "fail" /\ Calls[2].env.secondary = "ok"
    /\ Calls[1].env.primary = "ok"
    /\ Len(files.secondary) = Len(Calls[2].message) + 2
    /\ files.console = <<>>

\* C10: a call of a log sink that finds both locations unwritable returns
\* without raising and prints the message; the job goes on as usual (after a
\* failed remote attempt the fallback still runs, and the job returns).
C10_ConsoleLastResort ==
    /\ \A i \in DOMAIN Calls :
        LET c == Calls[i]
        IN  (c.env.primary = "fail" /\ c.env.secondary = "fail") =>
                /\ ~files.raised
                /\ c.after.console =
                      c.before.console
                        \o <<Tok("", "Failed to write log: ", <<>>, "")>>
                        \o c.message \o <<NL>>
                /\ c.after.primary = c.before.primary
                /\ c.after.secondary = c.before.secondary
                /\ c.after.report_primary = c.before.report_primary
                /\ c.after.report_secondary = c.before.report_secondary
    /\ (CronDone /\ RemoteFailed) => (dbCalls = 1 /\ Len(Calls) = 2)
    /\ pc = "done" => ret \in {"None", "success"}

C10_Witness ==
    /\ CronDone /\ MutationErrors /\ dbCalls = 1 /\ dbFault.at = "none"
    /\ Calls[1].env.primary = "fail" /\ Calls[1].env.secondary = "fail"
    /\ Len(updated_products) >= 1
    /\ files.console # <<>>

\* the locations that got text from call c
LocationsWritten(c) ==
    {l \in {"primary", "secondary", "console"} :
        \/ l = "primary"
           /\ (c.after.primary # c.before.primary
               \/ c.after.report_primary # c.before.report_primary)
        \/ l = "secondary"
           /\ (c.after.secondary # c.before.secondary
               \/ c.after.report_secondary # c.before.report_secondary)
        \/ l = "console" /\ c.after.console # c.before.console}

\* C11: every message passed to a log sink ends up in exactly one of the
\* three locations (primary file, secondary file, console), whatever write
\* calls fail at the primary and at the secondary location.
C11_ExactlyOneLocation ==
    \A i \in DOMAIN Calls : Cardinality(LocationsWritten(Calls[i])) = 1

\* the response has status 200 and a top-level error list, or its payload
\* lacks an expected field
BadPayload ==
    /\ ~response.exc /\ response.status = HTTP_OK
    /\ \/ response.top_errors
       \/ response.missing \in MissingFields \ ProductFields
       \/ response.missing \in ProductFields /\ response.data.updated_products # <<>>

\* C12: a response with status 200 that carries a top-level error list, or
\* whose payload lacks an expected field (data, updateLowStockProducts,
\* updatedProducts, successMessage, errors, or a product's id, name or stock),
\* is handled like a transport failure: the failure is logged,
\* _update_via_graphql reports failure, the fallback runs, and no exception
\* escapes.
C12_BadPayloadFallsBack ==
    (job = "update_low_stock" /\ BadPayload) =>
        /\ ~success
        /\ FirstKind(Calls[1].message)
               \in {"GraphQL errors: ", "GraphQL approach failed: ", "Mutation errors: "}
        /\ ~files.raised
        /\ pc # "idle"
        /\ pc = "done" => (dbCalls = 1 /\ ret = "None" /\ Len(Calls) = 2)

\* a served payload without the successMessage field, after which the
\* fallback has run to its end
C12_Witness ==
    /\ CronDone /\ BadPayload
    /\ response.missing = "successMessage"
    /\ response.data.updated_products # <<>>
    /\ dbCalls = 1 /\ Len(Calls) = 2

RemoteProductKind == "  - name (ID) - New stock: "
SuccessKinds ==
    {"Successfully updated N low-stock products.",
     "[Database Fallback] Successfully updated N low-stock products."}

\* the product lines of a record, and the count its summary line states (a
\* summary saying that no low-stock product was found states none)
ProductLines(message, kind) == {j \in DOMAIN message : message[j].kind = kind}
StatedCount(message) ==
    IF message[1].kind \in SuccessKinds THEN message[1].args[1] ELSE 0

\* the products whose stock the run changed, from the store `before`
UpdatedSince(before) == {p \in Products : stock[p] # before[p]}

\* the record agrees with the store: its count, and one line per product
\* updated carrying args(p), and no other product line
RecordMatches(message, kind, before, args(_)) ==
    /\ message[1].kind \in SuccessKinds \cup NoLowKinds
    /\ StatedCount(message) = Cardinality(UpdatedSince(before))
    /\ Cardinality(ProductLines(message, kind)) = Cardinality(UpdatedSince(before))
    /\ \A p \in UpdatedSince(before) :
          \E j \in ProductLines(message, kind) : message[j].args = args(p)
    /\ \A other \in {RemoteProductKind, DbProductKind} \ {kind} :
          ProductLines(message, other) = {}

RemoteLineArgs(p) == <<p, stock[p]>>
DbLineArgs(p) == <<p, stockDb[p], stock[p]>>

\* the run ended with the summary of the local path
DbSucceeded ==
    /\ CronDone /\ ~success /\ dbCalls = 1 /\ dbFault.at = "none"

SequentialResult(st) ==
    Mutate(Mutate(st, NoFault).stock, NoFault).stock
OverlapDone == \A r \in Runs : overlap.pc[r] = "done"

\* C15 as stated: after two overlapping runs the stock of every product is
\* what the two runs give one after the other, and no save wrote a stock
\* computed from a stale read.
C15_Original ==
    OverlapDone => (stock = SequentialResult(stock0) /\ ~overlap.stale)

\* C15 (amended): after two overlapping runs that both complete, on a store of
\* non-negative stocks, the stock of every product is what the two runs give
\* one after the other, although saves computed from stale reads do occur.
C15_OverlapEqualsSequential ==
    OverlapDone => stock = SequentialResult(stock0)

\* both runs read a low product before either saved it, and have ended
C15_Witness ==
    /\ OverlapDone
    /\ overlap.stale
    /\ stock # stock0

\* the rows the current call selected
SelectedIds ==
    {low_stock_products[i].id : i \in DOMAIN low_stock_products}
        \cup {updated_products[i].id : i \in DOMAIN updated_products}

\* C16: a run started right after a completed run, with no other writer in
\* between, selects no product whose stock after the first run is at least 10
\* (none that had old stock + 10 >= 10); if the stocks were all non-negative
\* before the first run, the second run updates nothing and leaves every stock
\* as it was.
C16_RerunSelectsNothingRestocked ==
    prev.ok =>
        /\ \A p \in SelectedIds :
              stock0[p] < Threshold /\ prev.before[p] + RestockAmount < Threshold
        /\ (\A p \in Products : prev.before[p] >= 0) =>
              (SelectedIds = {} /\ stock = stock0)

\* the second run has ended with the summary of an empty selection on a store
\* the first run had restocked from non-negative stocks, one of them 0
C16_Witness ==
    /\ prev.ok /\ pc = "done" /\ dbFault.at = "none"
    /\ \A p \in Products : prev.before[p] >= 0
    /\ \E p \in Products : prev.before[p] = 0 /\ stock[p] = RestockAmount
    /\ HasKind(LastCall.message, NoLowKinds)

ReportDone == job = "generate_crm_report" /\ pc = "done"

\* C17: generate_crm_report never raises; when its GraphQL path fails, at the
\* endpoint check or at the data query, the database fallback report runs
\* exactly once, and otherwise not at all; the dict returned has method
\* 'graphql', 'database_fallback' or 'failed', with success false exactly when
\* the method is 'failed'.
C17_ReportFallsBackOnce ==
    ReportDone =>
        /\ ~task.escaped /\ ret = "dict"
        /\ task.fallbacks = (IF task.graphql = "ok" THEN 0 ELSE 1)
        /\ task.result.method \in {"graphql", "database_fallback", "failed"}
        /\ task.result.method = "graphql" <=> task.graphql = "ok"
        /\ ~task.result.success <=> task.result.method = "failed"

\* the endpoint check failed and the store raised in the fallback
C17_Witness ==
    /\ ReportDone
    /\ task.graphql = "hello"
    /\ task.fallbacks = 1
    /\ task.result = [success |-> FALSE, method |-> "failed"]

\* the mutation was executed and returned no errors
MutationSucceeded ==
    /\ job = "update_low_stock"
    /\ ~response.exc /\ response.status = HTTP_OK /\ ~response.top_errors
    /\ response.missing = "none"
    /\ response.data.errors = <<>>
LowBefore == {p \in Products : stock0[p] < Threshold}

\* C18: a successful updateLowStockProducts mutation returns no errors, an
\* updatedProducts list holding exactly the products whose stock was below 10
\* before the call, each with its stock after the update, and a successMessage
\* whose count is the length of that list; when no stock was below 10 the list
\* is empty and the message says that no low-stock products were found.
C18_MutationPayload ==
    MutationSucceeded =>
        LET ups == response.data.updated_products
            msg == response.data.success_message
        IN  /\ {ups[i].id : i \in DOMAIN ups} = LowBefore
            /\ Len(ups) = Cardinality(LowBefore)
            /\ \A i \in DOMAIN ups :
                  /\ ups[i].stock = stock0[ups[i].id] + RestockAmount
                  /\ (pc = "done" => ups[i].stock = stock[ups[i].id])
            /\ IF LowBefore = {}
               THEN ups = <<>> /\ msg.kind = "No low-stock products found."
               ELSE /\ msg.kind = "Successfully updated N low-stock products."
                    /\ msg.args = <<Len(ups)>>

\* the mutation restocked two of the three products
C18_Witness ==
    /\ MutationSucceeded
    /\ Len(response.data.updated_products) = 2
    /\ Cardinality(LowBefore) = 2

RemindersDone == job = "send_order_reminders" /\ pc = "done"
\* a record of this kind is in the log file or was printed
Reported(kind) ==
    \/ \E i \in DOMAIN task.log : task.log[i].kind = kind
    \/ \E i \in DOMAIN task.printed : task.printed[i].kind = kind
GraphqlPathFailed == task.result.method # "graphql"

\* C19: no exception leaves main() of the order-reminders script: a failure of
\* the GraphQL query, of the processing of its result or of the log write is
\* caught and logged, or printed when the log cannot be written; the database
\* fallback is then attempted, once, and its failure is caught and logged or
\* printed as well.
C19_RemindersNeverEscape ==
    RemindersDone =>
        /\ ~task.escaped /\ ret = "None"
        /\ task.result.method \in {"graphql", "database_fallback", "failed"}
        /\ task.result.method = "graphql" => task.fallbacks = 0
        /\ GraphqlPathFailed =>
              /\ Reported("Error processing order reminders: ")
              /\ task.fallbacks = 1
        /\ task.result.method = "failed" =>
              Reported("[FALLBACK] Database approach also failed: ")

\* the log write of main failed, the error could only be printed, and the
\* fallback failed too
C19_Witness ==
    /\ RemindersDone
    /\ task.graphql = "ok" /\ task.result.method = "failed"
    /\ task.fallbacks = 1
    /\ \E i \in DOMAIN task.printed :
          task.printed[i].kind = "Error processing order reminders: "

\* the remote attempt gave status 200, no top-level error key and an empty (or
\* null) error list of the mutation
NoErrorReported ==
    /\ job = "update_low_stock"
    /\ ~response.exc /\ response.status = HTTP_OK /\ ~response.top_errors
    /\ ~KeyErrorBeforeErrors(response)
    /\ response.data.errors = <<>>
\* the store a run leaves without any write of the orchestrator: the one the
\* server's mutation left
NoLocalWrite ==
    /\ dbCalls = 0
    /\ low_stock_products = <<>> /\ updated_products = <<>>
    /\ stock = RestockedStore(stock0)

\* C20 as stated: status 200, no top-level error key and an empty or null
\* error list of the mutation suffice for the fallback not to run.
C20_Original ==
    NoErrorReported => (pc = "done" /\ NoLocalWrite)

\* C20 (amended): when the remote attempt gives status 200, no top-level error
\* key, an empty or null error list and a payload holding updatedProducts,
\* successMessage and the id, name and stock of every product, the run ends
\* without the fallback and without a store write of the orchestrator, for
\* every outcome of the log locations.
C20_SuccessSkipsFallback ==
    (NoErrorReported /\ ~KeyErrorAfterErrors(response)) =>
        /\ success /\ pc = "done" /\ ret = "None"
        /\ NoLocalWrite
        /\ Len(Calls) = 1

\* a successful remote run whose record could be written to no file
C20_Witness ==
    /\ NoErrorReported /\ ~KeyErrorAfterErrors(response)
    /\ response.data.updated_products # <<>>
    /\ Calls[1].env = [primary |-> "fail", secondary |-> "fail"]
    /\ files.primary = <<>> /\ files.secondary = <<>> /\ files.console # <<>>
    /\ NoLocalWrite

\* ---------------------------------------------- mutation versus fallback
\* what the mutation does and reports when started from the store the
\* fallback was started from, with no store failure
MutateFromDb == Mutate(stockDb, NoFault)

\* C21: started from the same product table and run without failures, the
\* mutation and the local fallback leave every product with the same stock
\* and report the same products as updated, with the same new stock.
C21_MutateEqualsFallback ==
    DbSucceeded =>
        /\ stock = MutateFromDb.stock
        /\ {updated_products[i].id : i \in DOMAIN updated_products}
              = {MutateFromDb.updated_products[i].id :
                    i \in DOMAIN MutateFromDb.updated_products}
        /\ Len(updated_products) = Len(MutateFromDb.updated_products)
        /\ \A i \in DOMAIN updated_products :
              /\ updated_products[i].id = MutateFromDb.updated_products[i].id
              /\ updated_products[i].new_stock = MutateFromDb.updated_products[i].stock

\* a fallback that restocked two products of a table holding a third one
C21_Witness ==
    /\ DbSucceeded
    /\ Len(updated_products) = 2
    /\ \E p \in Products : stock[p] = stockDb[p]
    /\ \E p \in Products : stock[p] = 13

\* ------------------------------------------------------ frame of a run
RunStarted == run.pc # "start"
SavedIds == {run.saved[i].id : i \in DOMAIN run.saved}

\* C22: a replenishment run, remote or local, creates and deletes no product
\* and leaves the id, the name and the price of every product as they were
\* when it started, at every point of the run and when it fails part-way.
C22_RunKeepsRows ==
    RunStarted =>
        /\ DOMAIN stock = DOMAIN run.before.stock
        /\ DOMAIN price = DOMAIN stock /\ DOMAIN name = DOMAIN stock
        /\ price = run.before.price
        /\ name = run.before.name
        /\ \A p \in DOMAIN stock : p \notin SavedIds => stock[p] = run.before.stock[p]

\* a fallback that failed at its second save, on rows of different prices and
\* names
C22_Witness ==
    /\ run.path = "fallback" /\ run.pc = "failed"
    /\ Len(run.saved) = 1 /\ run.rows # <<>>
    /\ stock # run.before.stock
    /\ \E p, q \in DOMAIN stock : price[p] # price[q] /\ name[p] # name[q]

\* the store fault a failed run met
RunFault ==
    IF run.pc # "failed" THEN NoFault
    ELSE IF run.rows = <<>> THEN [at |-> "query", k |-> 0]
    ELSE [at |-> "save", k |-> Len(run.saved) + 1]

\* C23: UpdateLowStockProducts.mutate never raises; a store exception before
\* the loop or at the save of the k-th product is returned as a value with
\* errors = [message], updatedProducts = [] and successMessage = null, and the
\* stocks saved before the exception stay in the store.
C23_MutateReturnsError ==
    run.path = "mutation" =>
        /\ ~run.raised
        /\ run.pc = "failed" =>
              /\ run.value.errors = <<StoreErrorText>>
              /\ run.value.updated_products = <<>>
              /\ run.value.success_message = NoneTok
              /\ \A p \in DOMAIN stock :
                    stock[p] = IF p \in SavedIds
                               THEN run.before.stock[p] + RestockAmount
                               ELSE run.before.stock[p]
              /\ Len(run.saved) = RunFault.k - (IF RunFault.at = "save" THEN 1 ELSE 0)
        /\ run.pc \in {"failed", "done"} =>
              LET m == Mutate(run.before.stock, RunFault)
              IN  /\ m.stock = stock
                  /\ m.errors = run.value.errors
                  /\ m.success_message = run.value.success_message
                  /\ Len(m.updated_products) = Len(run.value.updated_products)
                  /\ \A i \in DOMAIN m.updated_products :
                        m.updated_products[i] = run.value.updated_products[i]

\* the mutation met a store exception at its third save: two stocks stay saved
C23_Witness ==
    /\ run.path = "mutation" /\ run.pc = "failed"
    /\ Len(run.saved) = 2 /\ run.rows # <<>>
    /\ \A p \in SavedIds : stock[p] = 15
    /\ run.value.errors # <<>>

\* ------------------------------------------------------- customer emails
\* C24: no two customers share an email in any reachable state, under any
\* sequence or interleaving of CreateCustomer and BulkCreateCustomers calls,
\* a batch holding an email twice included.
C24_UniqueEmails ==
    \A i, j \in DOMAIN customerTable :
        customerTable[i] = customerTable[j] => i = j

====
